---- MODULE Spec2Model ----
(***************************************************************************)
(* Daily Spend Rate Tracker (revolut-spend-tracker): the expense ledger,   *)
(* the sync cursor, the sync cycle (processDailySpendRate / getExpenses /  *)
(* calculateDailySpendRate), the manual cash entry (addCashExpense), the   *)
(* commands of the Telegram webhook and the access token check.            *)
(*                                                                         *)
(* Modelling conventions                                                   *)
(*  - A calendar date string "2025-MM-DD" is the pair <<MM, DD>>; the year *)
(*    is fixed to 2025 (not a leap year).  A full ISO timestamp string is  *)
(*    the timestamp itself, counted in clock ticks since 2025-01-01T00:00Z *)
(*    (toISOString and new Date(iso) are inverse of each other).           *)
(*  - Amounts are integers (minor units).                                  *)
(*  - A KV key is a sequence of length 0 (no value, get returns null) or 1.*)
(***************************************************************************)
EXTENDS Integers, Sequences, FiniteSets, TLC

(* ------------------------------ bounds --------------------------------- *)
TicksPerDay == 1       \* clock resolution: distinct clock readings per day
MaxTick     == 1       \* how far the clock advances past the start
MaxOps      == 2       \* Spec, SpecToken: invocations started, overlapping
MaxSeqOps   == 3       \* SpecSeq, SpecTelegram: invocations, one at a time
MaxLen      == 3       \* SpecMerge: records in a ledger that is merged into

(* ---------------------------- calendar --------------------------------- *)
DaysInMonth == <<31, 28, 31, 30, 31, 30, 31, 31, 30, 31, 30, 31>>

\* time value of an Invalid Date (NaN)
InvalidDate == -1

\* default lookback of the first sync
LookbackDays == 30

RECURSIVE DaysBefore(_)
DaysBefore(m) == IF m <= 1 THEN 0 ELSE DaysBefore(m - 1) + DaysInMonth[m - 1]

\* ECMAScript MakeDay(2025, m, d): d may overflow the month
MakeDay(m, d) == DaysBefore(m) + d - 1

Day(t) == t \div TicksPerDay
TimeWithinDay(t) == t % TicksPerDay

MonthFromDay(n) ==
  CHOOSE m \in 1..12 : DaysBefore(m) <= n /\ n < DaysBefore(m) + DaysInMonth[m]

getDate(t) == Day(t) - DaysBefore(MonthFromDay(Day(t))) + 1

\* date.setDate(d): same month and time of day, day of month d (may overflow)
setDate(t, d) == MakeDay(MonthFromDay(Day(t)), d) * TicksPerDay + TimeWithinDay(t)

\* date.toISOString().split('T')[0]
toISODate(t) == <<MonthFromDay(Day(t)), getDate(t)>>

\* new Date("2025-MM-DD") in V8: month 1..12 and day 1..31 are accepted and a
\* day past the end of the month rolls over; anything else is Invalid Date.
DateParse(s) ==
  IF s[1] \in 1..12 /\ s[2] \in 1..31
  THEN MakeDay(s[1], s[2]) * TicksPerDay
  ELSE InvalidDate

(* ------------------------------ ledger --------------------------------- *)
EmptyLedger == [expenses |-> <<>>, dailyRates |-> <<>>]

Abs(x) == IF x < 0 THEN -x ELSE x

IdsOf(exps) == {exps[i].id : i \in DOMAIN exps}

\* Mutant: the duplicate check dropped, every incoming record is appended
RECURSIVE AppendAll(_, _)
AppendAll(all, expenses) ==
  IF expenses = <<>> THEN all
  ELSE AppendAll(Append(all, Head(expenses)), Tail(expenses))

\* allExpenses: the stored records, then each incoming record whose id is new
RECURSIVE AppendNew(_, _)
AppendNew(all, expenses) ==
  IF expenses = <<>> THEN all
  ELSE AppendNew(IF Head(expenses).id \in IdsOf(all)
                 THEN all
                 ELSE Append(all, Head(expenses)),
                 Tail(expenses))

\* hasAmount: spent_amount present and typeof amount === 'number'
IsValid(exp) == exp.numeric

validExpenses(all) == SelectSeq(all, IsValid)

\* Mutant: the amount is counted with its sign
SpentSigned(exp) == IF exp.nan THEN 0 ELSE exp.amount

\* Math.abs(parseFloat(exp.spent_amount?.amount || 0)); NaN || 0 is 0
Spent(exp) == IF exp.nan THEN 0 ELSE Abs(exp.amount)

RECURSIVE SumAbs(_)
SumAbs(exps) ==
  IF exps = <<>> THEN 0 ELSE Spent(Head(exps)) + SumAbs(Tail(exps))

\* new Date(exp.expense_date || exp.created_at)
ExpenseTime(exp) == DateParse(exp.expense_date)

\* the key an expense is grouped under (toISOString throws on Invalid Date)
DateKey(exp) == toISODate(ExpenseTime(exp))

OnDay(valid, k) == SelectSeq(valid, LAMBDA e : DateKey(e) = k)

expensesByDay(valid) ==
  [k \in {DateKey(valid[i]) : i \in DOMAIN valid} |-> SumAbs(OnDay(valid, k))]

\* Mutant: the day's new total is added to the stored one instead of replacing it
updatedDailyRatesAdded(dailyRates, byDay) ==
  [k \in (DOMAIN dailyRates) \cup (DOMAIN byDay) |->
     (IF k \in DOMAIN dailyRates THEN dailyRates[k] ELSE 0) +
     (IF k \in DOMAIN byDay THEN byDay[k] ELSE 0)]

\* { ...historicalData.dailyRates } overwritten by every entry of expensesByDay
updatedDailyRates(dailyRates, byDay) ==
  [k \in (DOMAIN dailyRates) \cup (DOMAIN byDay) |->
     IF k \in DOMAIN byDay THEN byDay[k] ELSE dailyRates[k]]

\* calculateDailySpendRate: ok = FALSE when it throws (RangeError: Invalid time
\* value from toISOString of a valid expense's date)
calculateDailySpendRate(expenses, historicalData) ==
  LET all   == AppendNew(historicalData.expenses, expenses)
      valid == validExpenses(all)
      threw == \E i \in DOMAIN valid : ExpenseTime(valid[i]) = InvalidDate
  IN IF threw
     THEN [ok |-> FALSE, historicalData |-> historicalData]
     ELSE [ok |-> TRUE,
           historicalData |->
             [expenses   |-> all,
              dailyRates |-> updatedDailyRates(historicalData.dailyRates,
                                               expensesByDay(valid))]]

\* JSON.stringify(data), read back as JSON: an amount that is NaN is written
\* as null
stringify(data) ==
  [data EXCEPT !.expenses =
     [i \in DOMAIN data.expenses |->
        IF data.expenses[i].nan
        THEN [data.expenses[i] EXCEPT !.numeric = FALSE, !.nan = FALSE]
        ELSE data.expenses[i]]]

(* --------------------------- remote feed -------------------------------- *)
\* the category field of feed record k; "" when the record has none
FeedCategory(k) == IF k % 2 = 1 THEN "Food" ELSE ""

\* the merchant of feed record k, a string; "" when the record has none
FeedMerchant(k) == IF k % 3 = 2 THEN "Cafe" ELSE ""

FeedRecord(k, num, amt, date) ==
  [id |-> <<"feed", k, 0>>, numeric |-> num, nan |-> FALSE, amount |-> amt,
   expense_date |-> date, manual |-> FALSE,
   currency |-> "EUR", category |-> FeedCategory(k),
   merchantCategory |-> "", merchant |-> FeedMerchant(k)]

e1  == FeedRecord(1, TRUE, 5, <<2, 26>>)
e1b == FeedRecord(1, TRUE, 7, <<2, 27>>)    \* the id of e1 with other data
e2  == FeedRecord(2, TRUE, -3, <<2, 27>>)   \* a refund
e3  == FeedRecord(3, TRUE, 2, <<2, 28>>)
ex  == FeedRecord(4, FALSE, 0, <<2, 28>>)   \* amount missing or not a number

\* what one call of the expenses endpoint may return
Batches == {<<>>, <<e1, e2>>, <<e1b, e2, e2>>, <<e3, ex>>}

\* the endpoint returns expenses dated within [from, to]
InWindow(exp, from, to) ==
  /\ DateParse(from) <= DateParse(exp.expense_date)
  /\ DateParse(exp.expense_date) <= DateParse(to)

FeedResponses(from, to) ==
  {b \in Batches : \A i \in DOMAIN b : InWindow(b[i], from, to)}

(* ------------------------------- state --------------------------------- *)
VARIABLES
  now,         \* the clock (Date.now(), new Date()), in ticks
  opsStarted,  \* number of operations started so far
  kvLedger,    \* HISTORICAL_SPEND_DATA 'spendData'
  kvCursor,    \* LAST_PROCESSED_DATE 'last_date'
  inv,         \* the invocations in flight and their local variables
  lastFail,    \* the window of the last cycle that fetched, if it failed
  kvToken,     \* REVOLUT_TOKEN 'token': the number of the refresh it is from
  kvExpiry,    \* REVOLUT_TOKEN_EXPIRY 'expiry', and the refresh it is from
  issued       \* the refreshes the bank has answered; it accepts the last token

vars == <<now, opsStarted, kvLedger, kvCursor, inv, lastFail,
          kvToken, kvExpiry, issued>>

\* the state of the authorization, which only processDailySpendRate's token
\* check and refreshToken read and write
authVars == <<kvToken, kvExpiry, issued>>

\* concurrent invocations of the worker; each runs a sync cycle
\* (processDailySpendRate) or a cash command (handleAddCashExpenseCommand)
Invocations == {"i1", "i2"}

StartTime == DateParse(<<2, 27>>)

Idle ==
  [pc |-> "idle", hist |-> EmptyLedger, cursorRead |-> <<>>, today |-> 0,
   from |-> <<1, 1>>, to |-> <<1, 1>>, expenses |-> <<>>,
   route |-> "none", notice |-> "none", parts |-> <<>>,
   token |-> <<>>, expiryTime |-> 0]

Init ==
  /\ now = StartTime
  /\ opsStarted = 0
  /\ kvLedger = <<>>
  /\ kvCursor = <<>>
  /\ inv = [p \in Invocations |-> Idle]
  /\ lastFail = <<>>
  /\ kvToken = <<>>
  /\ kvExpiry = <<>>
  /\ issued = 0

Finished(pc) == pc \in {"idle", "done", "failed"}

\* an invocation that returned or threw: its locals are gone
Ended(pc) == [Idle EXCEPT !.pc = pc]

\* the invocation slots are interchangeable: the second is used while the
\* first is busy
Free(p) ==
  /\ Finished(inv[p].pc)
  /\ p = "i2" => ~Finished(inv["i1"].pc)

StoredLedger == IF kvLedger = <<>> THEN EmptyLedger ELSE kvLedger[1]

(* ----------------------------- analytics ------------------------------- *)
\* The part of calculateDailySpendRate's result that is returned and not
\* stored. A quotient is kept exact, as a fraction in lowest terms.
DefaultTarget == 150

TopCategoriesShown == 5

Max(a, b) == IF a >= b THEN a ELSE b

Min(a, b) == IF a <= b THEN a ELSE b

RECURSIVE GCD(_, _)
GCD(a, b) == IF b = 0 THEN a ELSE GCD(b, a % b)

\* a / b for a >= 0 and b >= 0: x / 0 is Infinity (1 over 0) and 0 / 0 is
\* NaN (0 over 0)
Divide(a, b) ==
  IF GCD(a, b) = 0 THEN [num |-> 0, den |-> 0]
  ELSE [num |-> a \div GCD(a, b), den |-> b \div GCD(a, b)]

\* the time values of the valid expenses
dates(valid) == {ExpenseTime(valid[i]) : i \in DOMAIN valid}

\* Mutant: with no valid expense the period starts at the epoch
oldestDateEpoch(valid) ==
  IF valid = <<>> THEN 0
  ELSE CHOOSE t \in dates(valid) : \A u \in dates(valid) : t <= u

\* new Date(Math.min(...dates)), new Date() when there is no valid expense
oldestDate(valid) ==
  IF valid = <<>> THEN now
  ELSE CHOOSE t \in dates(valid) : \A u \in dates(valid) : t <= u

newestDate(valid) ==
  IF valid = <<>> THEN now
  ELSE CHOOSE t \in dates(valid) : \A u \in dates(valid) : t >= u

\* Math.ceil(t / (1000 * 60 * 60 * 24))
CeilDays(t) == -((-t) \div TicksPerDay)

\* Mutant: the floor of 1 is dropped
daysDiffUnclamped(valid) == CeilDays(newestDate(valid) - oldestDate(valid))

\* Mutant: the first and the last day are both counted
daysDiffInclusive(valid) ==
  Max(1, CeilDays(newestDate(valid) - oldestDate(valid)) + 1)

daysDiff(valid) == Max(1, CeilDays(newestDate(valid) - oldestDate(valid)))

\* "2025-MM-DD" strings compared as sort() compares them
DateBefore(a, b) == a[1] < b[1] \/ (a[1] = b[1] /\ a[2] < b[2])

\* Object.keys(dailyRates).sort()
RECURSIVE SortedDates(_)
SortedDates(S) ==
  IF S = {} THEN <<>>
  ELSE LET first == CHOOSE d \in S : \A e \in S : d = e \/ DateBefore(d, e)
       IN <<first>> \o SortedDates(S \ {first})

\* seq.slice(-n)
LastN(seq, n) == SubSeq(seq, Max(1, Len(seq) - n + 1), Len(seq))

RECURSIVE SumOfDates(_, _)
SumOfDates(dailyRates, ds) ==
  IF ds = <<>> THEN 0
  ELSE dailyRates[Head(ds)] + SumOfDates(dailyRates, Tail(ds))

\* Mutant: the sum is divided by the length of the window asked for
calculateMovingAverageOverDays(dailyRates, days) ==
  LET all    == SortedDates(DOMAIN dailyRates)
      recent == LastN(all, days)
  IN IF all = <<>> THEN Divide(0, 1)
     ELSE Divide(SumOfDates(dailyRates, recent), days)

calculateMovingAverage(dailyRates, days) ==
  LET all    == SortedDates(DOMAIN dailyRates)
      recent == LastN(all, days)
  IN IF all = <<>> THEN Divide(0, 1)
     ELSE Divide(SumOfDates(dailyRates, recent), Len(recent))

\* exp.merchant?.category || exp.category || exp.merchant || 'Uncategorized'
Label(exp) ==
  IF exp.merchantCategory # "" THEN exp.merchantCategory
  ELSE IF exp.category # "" THEN exp.category
  ELSE IF exp.merchant # "" THEN exp.merchant
  ELSE "Uncategorized"

\* the keys of categorized, in the order they were inserted
RECURSIVE LabelsInOrder(_, _)
LabelsInOrder(valid, seen) ==
  IF valid = <<>> THEN seen
  ELSE LabelsInOrder(Tail(valid),
                     IF \E i \in DOMAIN seen : seen[i] = Label(Head(valid))
                     THEN seen
                     ELSE Append(seen, Label(Head(valid))))

categorized(valid) ==
  LET labels == LabelsInOrder(valid, <<>>)
  IN [i \in DOMAIN labels |->
        [category |-> labels[i],
         amount   |-> SumAbs(SelectSeq(valid, LAMBDA e : Label(e) = labels[i]))]]

\* x placed behind every entry whose amount is not smaller (a stable sort)
InsertByAmount(sorted, x) ==
  LET ahead == SelectSeq(sorted, LAMBDA y : y.amount >= x.amount)
      after == SelectSeq(sorted, LAMBDA y : y.amount < x.amount)
  IN ahead \o <<x>> \o after

\* entries.sort((a, b) => b[1] - a[1])
RECURSIVE SortByAmount(_)
SortByAmount(entries) ==
  IF entries = <<>> THEN <<>>
  ELSE InsertByAmount(SortByAmount(SubSeq(entries, 1, Len(entries) - 1)),
                      entries[Len(entries)])

\* (amount / totalAmount * 100).toFixed(1), in tenths of a percent; '0.0'
\* when totalAmount is 0
Percentage(amount, totalAmount) ==
  IF totalAmount > 0
  THEN (amount * 2000 + totalAmount) \div (2 * totalAmount)
  ELSE 0

\* Mutant: the first five categories in the order they were met, unsorted
topCategoriesUnsorted(valid, totalAmount) ==
  LET entries == categorized(valid)
      top     == SubSeq(entries, 1, Min(TopCategoriesShown, Len(entries)))
  IN [i \in DOMAIN top |->
        [category   |-> top[i].category,
         amount     |-> top[i].amount,
         percentage |-> Percentage(top[i].amount, totalAmount)]]

topCategories(valid, totalAmount) ==
  LET sorted == SortByAmount(categorized(valid))
      top    == SubSeq(sorted, 1, Min(TopCategoriesShown, Len(sorted)))
  IN [i \in DOMAIN top |->
        [category   |-> top[i].category,
         amount     |-> top[i].amount,
         percentage |-> Percentage(top[i].amount, totalAmount)]]

\* validExpenses[0].spent_amount?.currency || 'AUD'
currency(valid) ==
  IF valid # <<>> /\ valid[1].currency # "" THEN valid[1].currency ELSE "AUD"

\* Mutant: the shortfall is not floored at 0
calculateTargetSpendUnclamped(targetDailyRate, days, totalAmount) ==
  targetDailyRate * days - totalAmount

calculateTargetSpend(targetDailyRate, days, totalAmount) ==
  Max(0, targetDailyRate * days - totalAmount)

\* the returned fields of calculateDailySpendRate(expenses, historicalData),
\* when it does not throw
spendRateResult(expenses, historicalData) ==
  LET merged == calculateDailySpendRate(expenses, historicalData).historicalData
      valid  == validExpenses(merged.expenses)
      total  == SumAbs(valid)
      days   == daysDiff(valid)
  IN [dailyRate          |-> Divide(total, days),
      totalAmount        |-> total,
      movingAverage7Day  |-> calculateMovingAverage(merged.dailyRates, 7),
      movingAverage30Day |-> calculateMovingAverage(merged.dailyRates, 30),
      periodDays         |-> days,
      topCategories      |-> topCategories(valid, total),
      currency           |-> currency(valid),
      targetSpendAmount  |-> calculateTargetSpend(DefaultTarget, days, total)]

(* ----------------------------- the clock ------------------------------- *)
\* The clock is observed only where the code reads it (new Date() in
\* getExpenses, Date.now() in the cash command); each reading is at or after
\* the previous one.
Readings == now..(StartTime + MaxTick)

(* ---------------------------- sync cycle ------------------------------- *)
\* The callers of processDailySpendRate: the cron trigger ("scheduled"), GET
\* /trigger without skipNotification ("trigger"), GET /calculate
\* ("calculate"), and the /stats and /update commands ("stats").
Routes == {"scheduled", "trigger", "calculate", "stats"}

\* options.skipNotification as each caller passes it
skipNotification(route) == route \in {"calculate", "stats"}

\* the status of the Response of handleTriggerRoute and handleCalculateRoute
HttpStatus(route, threw) == IF threw THEN 500 ELSE 200

\* a caller of one of the routes invokes processDailySpendRate
StartCycle(p, limit, routes) ==
  /\ Free(p)
  /\ opsStarted < limit
  /\ opsStarted' = opsStarted + 1
  /\ \E route \in routes :
       inv' = [inv EXCEPT ![p] = [Idle EXCEPT !.pc = "load", !.route = route]]
  /\ UNCHANGED <<now, kvLedger, kvCursor, lastFail, authVars>>

\* the token is missing or expired and refreshToken throws: the cycle throws
\* before it reads the ledger
RefreshFail(p) ==
  /\ inv[p].pc \in {"load", "exchange"}
  /\ inv' = [inv EXCEPT ![p] = Ended("failed")]
  /\ UNCHANGED <<now, opsStarted, kvLedger, kvCursor, lastFail, authVars>>

\* getHistoricalSpendData
LoadOk(p) ==
  /\ inv[p].pc = "load"
  /\ inv' = [inv EXCEPT ![p].pc = "window", ![p].hist = StoredLedger]
  /\ UNCHANGED <<now, opsStarted, kvLedger, kvCursor, lastFail, authVars>>

\* the ledger read fails: the cycle throws before it fetches
LoadFail(p) ==
  /\ inv[p].pc = "load"
  /\ inv' = [inv EXCEPT ![p] = Ended("failed")]
  /\ UNCHANGED <<now, opsStarted, kvLedger, kvCursor, lastFail, authVars>>

\* Mutant: the incremental window starts on the cursor's own day
WindowFromSameDay(cursor, today) ==
  IF cursor # <<>>
  THEN toISODate(cursor[1])
  ELSE toISODate(setDate(today, getDate(today) - LookbackDays))

\* formattedFromDate, with options = { incrementalUpdate: true }
WindowFrom(cursor, today) ==
  IF cursor # <<>>
  THEN toISODate(setDate(cursor[1], getDate(cursor[1]) + 1))
  ELSE toISODate(setDate(today, getDate(today) - LookbackDays))

\* formattedToDate
WindowTo(today) == toISODate(today)

\* getExpenses up to the request: read the cursor, take today, build the query
Window(p) ==
  /\ inv[p].pc = "window"
  /\ \E today \in Readings :
       /\ now' = today
       /\ inv' = [inv EXCEPT ![p].pc = "fetch",
                             ![p].cursorRead = kvCursor,
                             ![p].today = today,
                             ![p].from = WindowFrom(kvCursor, today),
                             ![p].to = WindowTo(today)]
  /\ UNCHANGED <<opsStarted, kvLedger, kvCursor, lastFail, authVars>>

\* Mutant: the cursor is advanced only when the fetch returned records
CursorAfterFetchIfAny(p, batch) ==
  IF batch = <<>> THEN kvCursor ELSE <<inv[p].today>>

\* LAST_PROCESSED_DATE.put('last_date', toDate.toISOString())
CursorAfterFetch(p, batch) == <<inv[p].today>>

\* the response is ok: the cursor is written, the expenses are returned
FetchOk(p) ==
  /\ inv[p].pc = "fetch"
  /\ \E batch \in FeedResponses(inv[p].from, inv[p].to) :
       /\ kvCursor' = CursorAfterFetch(p, batch)
       /\ inv' = [inv EXCEPT ![p].pc = "merge", ![p].expenses = batch]
  /\ UNCHANGED <<now, opsStarted, kvLedger, lastFail, authVars>>

\* Mutant: a failed fetch still advances the cursor
CursorAfterFailedFetchAdvanced(p) == <<inv[p].today>>

\* the put is skipped when the fetch throws
CursorAfterFailedFetch(p) == kvCursor

\* what is remembered of a cycle that threw after it had built its request
FailedWindow(p, stage) ==
  <<[stage |-> stage, from |-> inv[p].from, to |-> inv[p].to,
     cursor |-> inv[p].cursorRead]>>

\* transport error or non-ok status: getExpenses rethrows, the cycle throws
FetchFail(p) ==
  /\ inv[p].pc = "fetch"
  /\ kvCursor' = CursorAfterFailedFetch(p)
  /\ inv' = [inv EXCEPT ![p] = Ended("failed")]
  /\ lastFail' = FailedWindow(p, "fetch")
  /\ UNCHANGED <<now, opsStarted, kvLedger, authVars>>

\* Mutant: the result is returned without the ledger being saved
MergeSaveReadOnly(p) ==
  /\ inv[p].pc = "merge"
  /\ calculateDailySpendRate(inv[p].expenses, inv[p].hist).ok
  /\ inv' = [inv EXCEPT ![p] =
               IF skipNotification(inv[p].route)
               THEN Ended("done")
               ELSE [inv[p] EXCEPT !.pc = "notify"]]
  /\ lastFail' = <<>>
  /\ UNCHANGED <<now, opsStarted, kvLedger, kvCursor, authVars>>

\* calculateDailySpendRate, then saveHistoricalSpendData; the cycle returns
\* here when the notification is skipped
MergeSave(p) ==
  /\ inv[p].pc = "merge"
  /\ LET spendRate == calculateDailySpendRate(inv[p].expenses, inv[p].hist)
     IN /\ spendRate.ok
        /\ kvLedger' = <<stringify(spendRate.historicalData)>>
        /\ inv' = [inv EXCEPT ![p] =
                     IF skipNotification(inv[p].route)
                     THEN Ended("done")
                     ELSE [inv[p] EXCEPT !.pc = "notify",
                                         !.hist = spendRate.historicalData]]
  /\ lastFail' = <<>>
  /\ UNCHANGED <<now, opsStarted, kvCursor, authVars>>

\* calculateDailySpendRate throws: nothing is saved
MergeThrow(p) ==
  /\ inv[p].pc = "merge"
  /\ ~calculateDailySpendRate(inv[p].expenses, inv[p].hist).ok
  /\ inv' = [inv EXCEPT ![p] = Ended("failed")]
  /\ lastFail' = FailedWindow(p, "persist")
  /\ UNCHANGED <<now, opsStarted, kvLedger, kvCursor, authVars>>

\* Mutant: the ledger write fails after the merged ledger has been stored
SaveFailWritten(p) ==
  /\ inv[p].pc = "merge"
  /\ LET spendRate == calculateDailySpendRate(inv[p].expenses, inv[p].hist)
     IN /\ spendRate.ok
        /\ kvLedger' = <<stringify(spendRate.historicalData)>>
  /\ inv' = [inv EXCEPT ![p] = Ended("failed")]
  /\ lastFail' = FailedWindow(p, "persist")
  /\ UNCHANGED <<now, opsStarted, kvCursor, authVars>>

\* the ledger write fails
SaveFail(p) ==
  /\ inv[p].pc = "merge"
  /\ calculateDailySpendRate(inv[p].expenses, inv[p].hist).ok
  /\ inv' = [inv EXCEPT ![p] = Ended("failed")]
  /\ lastFail' = FailedWindow(p, "persist")
  /\ UNCHANGED <<now, opsStarted, kvLedger, kvCursor, authVars>>

\* sendNotification / sendSpendRateVisual returns: the cycle returns spendRate
NotifyOk(p) ==
  /\ inv[p].pc = "notify"
  /\ inv' = [inv EXCEPT ![p] = [Ended("done") EXCEPT !.notice = "sent"]]
  /\ UNCHANGED <<now, opsStarted, kvLedger, kvCursor, lastFail, authVars>>

\* Mutant: the error of the notification is rethrown
NotifyFailThrows(p) ==
  /\ inv[p].pc = "notify"
  /\ inv' = [inv EXCEPT ![p] = [Ended("failed") EXCEPT !.notice = "lost"]]
  /\ UNCHANGED <<now, opsStarted, kvLedger, kvCursor, lastFail, authVars>>

\* sendNotification / sendSpendRateVisual throws: the error is caught and
\* logged, the cycle returns spendRate
NotifyFail(p) ==
  /\ inv[p].pc = "notify"
  /\ inv' = [inv EXCEPT ![p] = [Ended("done") EXCEPT !.notice = "lost"]]
  /\ UNCHANGED <<now, opsStarted, kvLedger, kvCursor, lastFail, authVars>>

(* ------------------------- manual cash entry --------------------------- *)
\* the 8 characters of Math.random().toString(36).substring(2, 10)
RandomSuffixes == {0, 1}

CashAmounts == {4}

\* the parts of the text after the command, text.replace(...).trim()
\* .split(' '), without the date; the text without parameters splits into
\* one empty part
AcceptedTexts == {<<"4", "Groceries">>}

CommandTexts ==
  {<<"">>, <<"4">>, <<"abc", "Groceries">>, <<"0", "Groceries">>,
   <<"-5", "Groceries">>, <<"4abc", "Groceries">>} \cup AcceptedTexts

\* parseFloat(parts[0]): the longest prefix that is a decimal number, NaN
\* when there is none
parseFloat(text) ==
  CASE text = "4"    -> [nan |-> FALSE, value |-> 4]
    [] text = "4abc" -> [nan |-> FALSE, value |-> 4]
    [] text = "0"    -> [nan |-> FALSE, value |-> 0]
    [] text = "-5"   -> [nan |-> FALSE, value |-> 0 - 5]
    [] OTHER         -> [nan |-> TRUE, value |-> 0]

\* isNaN(amount) || amount <= 0
InvalidAmount(amount) == amount.nan \/ amount.value <= 0

\* a third parameter matching /^\d{4}-\d{2}-\d{2}$/ ; <<>> when there is none
CashDateArgs == {<<>>, <<2, 30>>, <<13, 45>>}

cashExpense(amount, dateArg, t, rnd) ==
  [id |-> <<"cash", t, rnd>>, numeric |-> TRUE, nan |-> FALSE,
   amount |-> amount,
   expense_date |-> IF dateArg # <<>> THEN dateArg ELSE toISODate(t),
   manual |-> TRUE,
   currency |-> "AUD", category |-> "Cash",
   merchantCategory |-> "Groceries", merchant |-> ""]

\* handleAddCashExpenseCommand with an accepted amount, up to the ledger read;
\* the new expense is held in the invocation's expenses
CashCommand(p, limit, texts) ==
  /\ Free(p)
  /\ opsStarted < limit
  /\ opsStarted' = opsStarted + 1
  /\ \E parts \in texts, dateArg \in CashDateArgs,
        t \in Readings, rnd \in RandomSuffixes :
       /\ Len(parts) >= 2
       /\ ~InvalidAmount(parseFloat(parts[1]))
       /\ now' = t
       /\ inv' = [inv EXCEPT ![p] = [Idle EXCEPT !.pc = "cashRead",
                    !.parts = parts,
                    !.expenses = <<cashExpense(parseFloat(parts[1]).value,
                                               dateArg, t, rnd)>>]]
  /\ UNCHANGED <<kvLedger, kvCursor, lastFail, authVars>>

\* handleAddCashExpenseCommand with fewer than two parts or an amount that is
\* refused: the usage instructions, or the error thrown and the error reply
\* of the catch; a reply whose request fails is not received ("none"), and
\* the failed usage reply is followed by the error reply
CashRejected(p, limit, texts) ==
  /\ Free(p)
  /\ opsStarted < limit
  /\ opsStarted' = opsStarted + 1
  /\ \E parts \in texts :
       /\ Len(parts) < 2 \/ InvalidAmount(parseFloat(parts[1]))
       /\ \E reply \in (IF Len(parts) < 2 THEN {"usage"} ELSE {})
                         \cup {"error", "none"} :
            inv' = [inv EXCEPT ![p] = [Ended("done") EXCEPT !.parts = parts,
                                                           !.notice = reply]]
  /\ UNCHANGED <<now, kvLedger, kvCursor, lastFail, authVars>>

\* historicalData.expenses.push(cashExpense); dailyRates[dateKey] += amount
addCashTo(historicalData, exp) ==
  LET dateKey == exp.expense_date
      old == IF dateKey \in DOMAIN historicalData.dailyRates
             THEN historicalData.dailyRates[dateKey] ELSE 0
  IN [expenses   |-> Append(historicalData.expenses, exp),
      dailyRates |-> [k \in (DOMAIN historicalData.dailyRates) \cup {dateKey} |->
                        IF k = dateKey THEN old + exp.amount
                        ELSE historicalData.dailyRates[k]]]

\* addCashExpense: getHistoricalSpendData, then the in-memory update
CashRead(p) ==
  /\ inv[p].pc = "cashRead"
  /\ inv' = [inv EXCEPT ![p].pc = "cashSave",
                        ![p].hist = addCashTo(StoredLedger, inv[p].expenses[1])]
  /\ UNCHANGED <<now, opsStarted, kvLedger, kvCursor, lastFail, authVars>>

\* addCashExpense: saveHistoricalSpendData
CashSave(p) ==
  /\ inv[p].pc = "cashSave"
  /\ kvLedger' = <<stringify(inv[p].hist)>>
  /\ inv' = [inv EXCEPT ![p] = Ended("done")]
  /\ UNCHANGED <<now, opsStarted, kvCursor, lastFail, authVars>>

\* the ledger read or write fails: the handler sends the error reply
CashFail(p) ==
  /\ inv[p].pc \in {"cashRead", "cashSave"}
  /\ inv' = [inv EXCEPT ![p] = Ended("failed")]
  /\ UNCHANGED <<now, opsStarted, kvLedger, kvCursor, lastFail, authVars>>

\* addCashExpense has saved, the request of the confirmation throws (fetch
\* rejects, or the response is not JSON): the catch sends the error reply
CashUnconfirmed(p) ==
  /\ inv[p].pc = "cashSave"
  /\ kvLedger' = <<stringify(inv[p].hist)>>
  /\ inv' = [inv EXCEPT ![p] = [Ended("done") EXCEPT !.parts = inv[p].parts,
                                                     !.notice = "error"]]
  /\ UNCHANGED <<now, opsStarted, kvCursor, lastFail, authVars>>

(* ------------------------------- /test --------------------------------- *)
\* Mutant: /test runs the cycle of /stats before it answers
TestCommandSyncs(p, limit) ==
  /\ Free(p)
  /\ opsStarted < limit
  /\ opsStarted' = opsStarted + 1
  /\ inv' = [inv EXCEPT ![p] = [Idle EXCEPT !.pc = "load", !.route = "test"]]
  /\ UNCHANGED <<now, kvLedger, kvCursor, lastFail, authVars>>

\* handleTestCommand: the chart of createMockSpendRate() is sent; when the
\* request throws, the catch sends the error text
TestCommand(p, limit) ==
  /\ Free(p)
  /\ opsStarted < limit
  /\ opsStarted' = opsStarted + 1
  /\ \E reply \in {"chart", "error"} :
       inv' = [inv EXCEPT ![p] = [Ended("done") EXCEPT !.route = "test",
                                                      !.notice = reply]]
  /\ UNCHANGED <<now, kvLedger, kvCursor, lastFail, authVars>>

(* ---------------------------- access token ----------------------------- *)
\* An access token is the number of the refresh that returned it. The bank
\* accepts the token of its last refresh only: refreshing an access token
\* invalidates the previous token. A token lives for less than one tick of
\* the clock, so that Date.now() > expiry is open within the tick of the
\* refresh and true after it.

\* processDailySpendRate is invoked; it starts with the token check
StartTokenCheck(p, limit) ==
  /\ Free(p)
  /\ opsStarted < limit
  /\ opsStarted' = opsStarted + 1
  /\ inv' = [inv EXCEPT ![p] = [Idle EXCEPT !.pc = "getToken",
                                            !.route = "scheduled"]]
  /\ UNCHANGED <<now, kvLedger, kvCursor, lastFail, authVars>>

\* let token = await env.REVOLUT_TOKEN.get('token')
GetToken(p) ==
  /\ inv[p].pc = "getToken"
  /\ inv' = [inv EXCEPT ![p].pc = "getExpiry", ![p].token = kvToken]
  /\ UNCHANGED <<now, opsStarted, kvLedger, kvCursor, lastFail, authVars>>

\* tokenExpiry = await env.REVOLUT_TOKEN_EXPIRY.get('expiry'), and
\* !token || !tokenExpiry || Date.now() > parseInt(tokenExpiry)
GetExpiry(p) ==
  /\ inv[p].pc = "getExpiry"
  /\ \E t \in Readings, late \in BOOLEAN :
       LET stale == \/ inv[p].token = <<>>
                    \/ kvExpiry = <<>>
                    \/ t > kvExpiry[1].at
                    \/ late
       IN /\ now' = t
          /\ inv' = [inv EXCEPT ![p].pc = IF stale THEN "exchange"
                                                   ELSE "present"]
  /\ UNCHANGED <<opsStarted, kvLedger, kvCursor, lastFail, authVars>>

\* refreshToken: the bank answers the exchange with a new access token;
\* expiryTime = Date.now() + expires_in * 1000 - 5 * 60 * 1000
Exchange(p) ==
  /\ inv[p].pc = "exchange"
  /\ issued' = issued + 1
  /\ \E t \in Readings :
       /\ now' = t
       /\ inv' = [inv EXCEPT ![p].pc = "putToken",
                             ![p].token = <<issued + 1>>,
                             ![p].expiryTime = t]
  /\ UNCHANGED <<opsStarted, kvLedger, kvCursor, lastFail, kvToken, kvExpiry>>

\* await env.REVOLUT_TOKEN.put('token', data.access_token)
PutToken(p) ==
  /\ inv[p].pc = "putToken"
  /\ kvToken' = inv[p].token
  /\ inv' = [inv EXCEPT ![p].pc = "putExpiry"]
  /\ UNCHANGED <<now, opsStarted, kvLedger, kvCursor, lastFail, kvExpiry,
                 issued>>

\* await env.REVOLUT_TOKEN_EXPIRY.put('expiry', expiryTime.toString())
PutExpiry(p) ==
  /\ inv[p].pc = "putExpiry"
  /\ kvExpiry' = <<[of |-> inv[p].token[1], at |-> inv[p].expiryTime]>>
  /\ inv' = [inv EXCEPT ![p].pc = "present"]
  /\ UNCHANGED <<now, opsStarted, kvLedger, kvCursor, lastFail, kvToken,
                 issued>>

\* a read or a write of the token store throws: the cycle throws
TokenStoreFail(p) ==
  /\ inv[p].pc \in {"getToken", "getExpiry", "putToken", "putExpiry"}
  /\ inv' = [inv EXCEPT ![p] = Ended("failed")]
  /\ UNCHANGED <<now, opsStarted, kvLedger, kvCursor, lastFail, authVars>>

\* getExpenses(token, ...): the request carries Authorization: Bearer token;
\* the bank accepts the token of its last refresh and refuses any other, and
\* getExpenses throws on a response that is not ok
Present(p) ==
  /\ inv[p].pc = "present"
  /\ inv' = [inv EXCEPT ![p] =
       IF inv[p].token = <<issued>>
       THEN [Ended("done") EXCEPT !.token = inv[p].token,
                                  !.notice = "authorized"]
       ELSE [Ended("failed") EXCEPT !.token = inv[p].token,
                                    !.notice = "unauthorized"]]
  /\ UNCHANGED <<now, opsStarted, kvLedger, kvCursor, lastFail, authVars>>

(* --------------------------- specifications ---------------------------- *)
Step(p) ==
  \/ RefreshFail(p)
  \/ LoadOk(p)
  \/ LoadFail(p)
  \/ Window(p)
  \/ FetchOk(p)
  \/ FetchFail(p)
  \/ MergeSave(p)
  \/ MergeThrow(p)
  \/ SaveFail(p)
  \/ CashRead(p)
  \/ CashSave(p)
  \/ CashFail(p)

\* the overlapping cycles are started with the notification skipped
OverlapRoutes == {"calculate"}

\* invocations overlap freely: every await is a point of interleaving
Next ==
  \/ \E p \in Invocations : StartCycle(p, MaxOps, OverlapRoutes)
  \/ \E p \in Invocations : CashCommand(p, MaxOps, AcceptedTexts)
  \/ \E p \in Invocations : Step(p)

Spec == Init /\ [][Next]_vars

NoneInFlight == \A p \in Invocations : Finished(inv[p].pc)

\* invocations run one after the other, each to completion
NextSeq ==
  \/ \E p \in Invocations : NoneInFlight /\ StartCycle(p, MaxSeqOps, Routes)
  \/ \E p \in Invocations : NoneInFlight /\ CashCommand(p, MaxSeqOps, AcceptedTexts)
  \/ \E p \in Invocations : Step(p)
  \/ \E p \in Invocations : NotifyOk(p)
  \/ \E p \in Invocations : NotifyFail(p)

SpecSeq == Init /\ [][NextSeq]_vars

\* the commands of the Telegram webhook, one after the other: /stats and
\* /update, /test, /add_cash_expense
TelegramRoutes == {"stats"}

NextTelegram ==
  \/ \E p \in Invocations :
       NoneInFlight /\ StartCycle(p, MaxSeqOps, TelegramRoutes)
  \/ \E p \in Invocations : NoneInFlight /\ TestCommand(p, MaxSeqOps)
  \/ \E p \in Invocations :
       NoneInFlight /\ CashCommand(p, MaxSeqOps, CommandTexts)
  \/ \E p \in Invocations :
       NoneInFlight /\ CashRejected(p, MaxSeqOps, CommandTexts)
  \/ \E p \in Invocations : Step(p)
  \/ \E p \in Invocations : CashUnconfirmed(p)

SpecTelegram == Init /\ [][NextTelegram]_vars

\* the token check of overlapping cycles, up to the request that presents
\* the token to the bank
NextToken ==
  \/ \E p \in Invocations : StartTokenCheck(p, MaxOps)
  \/ \E p \in Invocations : GetToken(p)
  \/ \E p \in Invocations : GetExpiry(p)
  \/ \E p \in Invocations : Exchange(p)
  \/ \E p \in Invocations : RefreshFail(p)
  \/ \E p \in Invocations : PutToken(p)
  \/ \E p \in Invocations : PutExpiry(p)
  \/ \E p \in Invocations : TokenStoreFail(p)
  \/ \E p \in Invocations : Present(p)

SpecToken == Init /\ [][NextToken]_vars

(* ----------------- the merge alone, on reachable ledgers ---------------- *)
\* Ledgers are built from the empty ledger by the two functions that produce
\* stored ledgers, applied to any feed batch and any accepted cash entry. The
\* invocation "i1" keeps the argument of the last application.
CashEntries ==
  {cashExpense(amount, dateArg, StartTime, rnd) :
     amount \in CashAmounts, dateArg \in CashDateArgs, rnd \in RandomSuffixes}

\* records of the analytics scenarios: three consecutive days, and one day
\* whose spending is above the default target
s1 == FeedRecord(5, TRUE, 50, <<1, 1>>)
s2 == FeedRecord(6, TRUE, 70, <<1, 2>>)
s3 == FeedRecord(7, TRUE, 30, <<1, 3>>)
s4 == FeedRecord(8, TRUE, 400, <<2, 27>>)

\* records of seven labels, each resolved from another field, with equal
\* sums at the fifth place
WithLabel(exp, merchantCategory, category, merchant) ==
  [exp EXCEPT !.merchantCategory = merchantCategory, !.category = category,
              !.merchant = merchant]

w1 == WithLabel(FeedRecord(11, TRUE, 9, <<2, 26>>), "Travel", "Food", "Cafe")
w2 == WithLabel(FeedRecord(12, TRUE, 2, <<2, 26>>), "", "Food", "Cafe")
w3 == WithLabel(FeedRecord(13, TRUE, 6, <<2, 27>>), "", "", "Cafe")
w4 == WithLabel(FeedRecord(14, TRUE, 1, <<2, 27>>), "", "", "")
w5 == WithLabel(FeedRecord(15, TRUE, 6, <<2, 27>>), "Books", "", "")
w6 == WithLabel(FeedRecord(16, TRUE, -8, <<2, 28>>), "Music", "", "Cafe")
w7 == WithLabel(FeedRecord(17, TRUE, 2, <<2, 28>>), "", "Rent", "")
w8 == WithLabel(FeedRecord(18, TRUE, 3, <<2, 28>>), "", "", "Cafe")

WideBatches ==
  {<<w1, w2, w3, w4, w5, w6, w7, w8>>, <<w8, w7, w6, w5, w4, w3, w2, w1>>}

\* a record whose amount is NaN, one day after s3
en == [FeedRecord(9, TRUE, 0, <<1, 4>>) EXCEPT !.nan = TRUE]

MergeInputs ==
  Batches \cup {<<s1, s2, s3>>, <<s4>>, <<s3, en>>} \cup WideBatches

MergeApply ==
  \E batch \in MergeInputs :
    LET spendRate == calculateDailySpendRate(batch, StoredLedger)
    IN /\ \/ StoredLedger.expenses = <<>>
          \/ Len(AppendNew(StoredLedger.expenses, batch)) <= MaxLen
       /\ spendRate.ok
       /\ kvLedger' = <<stringify(spendRate.historicalData)>>
       /\ inv' = [inv EXCEPT !["i1"] = [Idle EXCEPT !.pc = "merged",
                    !.hist = StoredLedger, !.expenses = batch]]
       /\ UNCHANGED <<now, opsStarted, kvCursor, lastFail, authVars>>

CashApply ==
  \E exp \in CashEntries :
    /\ Len(StoredLedger.expenses) < MaxLen
    /\ kvLedger' = <<stringify(addCashTo(StoredLedger, exp))>>
    /\ inv' = [inv EXCEPT !["i1"] = [Idle EXCEPT !.pc = "cashed",
                 !.hist = StoredLedger, !.expenses = <<exp>>]]
    /\ UNCHANGED <<now, opsStarted, kvCursor, lastFail, authVars>>

NextMerge == MergeApply \/ CashApply

SpecMerge == Init /\ [][NextMerge]_vars

(* ------------------------------ claims --------------------------------- *)
RECURSIVE SumRates(_)
SumRates(dailyRates) ==
  IF DOMAIN dailyRates = {} THEN 0
  ELSE LET k == CHOOSE d \in DOMAIN dailyRates : TRUE
       IN dailyRates[k] +
          SumRates([d \in (DOMAIN dailyRates) \ {k} |-> dailyRates[d]])

StoredIds == IdsOf(StoredLedger.expenses)

\* C1: merging a batch R into merge(L, R) again does not throw and returns
\* merge(L, R) itself: the same records in the same order and the same
\* dailyRates. Checked in every state that follows a merge of R into L.
C1_MergeIdempotent ==
  inv["i1"].pc = "merged" =>
    LET again == calculateDailySpendRate(inv["i1"].expenses, StoredLedger)
    IN /\ again.ok
       /\ again.historicalData = StoredLedger

\* a merge that added records to a ledger that already held some
C1_Witness ==
  /\ inv["i1"].pc = "merged"
  /\ inv["i1"].hist.expenses # <<>>
  /\ Len(StoredLedger.expenses) > Len(inv["i1"].hist.expenses)

\* C2: in every stored ledger the dailyRates sum to the sum of |amount| over
\* the valid records.
C2_TotalConservation ==
  SumRates(StoredLedger.dailyRates) = SumAbs(validExpenses(StoredLedger.expenses))

\* C3: no two records of the stored ledger share an id.
C3_UniqueIds ==
  \A i, j \in DOMAIN StoredLedger.expenses :
    i # j => StoredLedger.expenses[i].id # StoredLedger.expenses[j].id

\* C4: an id that is in the stored ledger is in it after every later step.
C4_AppendOnly == [][StoredIds \subseteq StoredIds']_vars

\* C5: the stored cursor never moves backward.
C5_CursorMonotone ==
  [][kvCursor # <<>> => (kvCursor' # <<>> /\ kvCursor'[1] >= kvCursor[1])]_vars

FetchFailedLast == lastFail # <<>> /\ lastFail[1].stage = "fetch"

PersistFailedLast == lastFail # <<>> /\ lastFail[1].stage = "persist"

\* C6 as claimed: after a failed fetch the next invocation requests the same
\* fromDate.
C6_SameFromAfterFailedFetch ==
  \A p \in Invocations :
    (inv[p].pc = "fetch" /\ FetchFailedLast) => inv[p].from = lastFail[1].from

\* C6 as amended: a failed fetch leaves the stored cursor as the failed cycle
\* read it, and the next invocation requests the same fromDate when a cursor
\* is stored or when it runs on the same day as the failed one.
C6_FailedFetchKeepsCursor ==
  /\ (FetchFailedLast /\ \A p \in Invocations : inv[p].pc # "merge")
       => kvCursor = lastFail[1].cursor
  /\ \A p \in Invocations :
       (/\ inv[p].pc = "fetch"
        /\ FetchFailedLast
        /\ (inv[p].cursorRead # <<>> \/ inv[p].to = lastFail[1].to))
       => inv[p].from = lastFail[1].from

\* a cursor is stored, the fetch of a day's window failed, and the next
\* invocation has sent its request
C6_Witness ==
  \E p \in Invocations :
    /\ inv[p].pc = "fetch"
    /\ FetchFailedLast
    /\ inv[p].cursorRead # <<>>
    /\ DateParse(lastFail[1].from) <= DateParse(lastFail[1].to)
    /\ inv[p].from = lastFail[1].from

\* C7: after a cycle that fetched and then failed before the ledger was
\* saved, the next cycle requests the same window again.
C7_RefetchAfterFailedPersist ==
  \A p \in Invocations :
    (inv[p].pc = "fetch" /\ PersistFailedLast) => inv[p].from = lastFail[1].from

\* C8: the step that completes a fetch successfully, whatever it returned,
\* stores as cursor the timestamp whose date is the toDate of that fetch.
C8_CursorIsToDate ==
  [][\A p \in Invocations :
       (inv[p].pc = "fetch" /\ inv'[p].pc = "merge") =>
         /\ kvCursor' = <<inv[p].today>>
         /\ toISODate(inv[p].today) = inv[p].to]_vars

\* a fetch that returned nothing has just completed
C8_Witness ==
  \E p \in Invocations :
    /\ inv[p].pc = "merge"
    /\ inv[p].expenses = <<>>
    /\ kvCursor = <<inv[p].today>>
    /\ inv[p].cursorRead # kvCursor

\* C9: no request is sent to the feed with fromDate later than toDate.
C9_NoFetchWhenUpToDate ==
  \A p \in Invocations :
    inv[p].pc = "fetch" => DateParse(inv[p].from) <= DateParse(inv[p].to)

\* C10: toDate is today; fromDate is the day after the cursor's day when a
\* cursor was read and 30 days before today otherwise.
C10_FetchWindow ==
  \A p \in Invocations :
    inv[p].pc \in {"fetch", "merge"} =>
      /\ DateParse(inv[p].to) = Day(inv[p].today) * TicksPerDay
      /\ DateParse(inv[p].from) =
           IF inv[p].cursorRead # <<>>
           THEN (Day(inv[p].cursorRead[1]) + 1) * TicksPerDay
           ELSE (Day(inv[p].today) - 30) * TicksPerDay

\* a request built from a cursor on the last day of February
C10_Witness ==
  \E p \in Invocations :
    /\ inv[p].pc = "fetch"
    /\ inv[p].cursorRead # <<>>
    /\ inv[p].from = <<3, 1>>

DisjointIds(R1, R2) == IdsOf(R1) \cap IdsOf(R2) = {}

RecordsOf(ledger) == {ledger.expenses[i] : i \in DOMAIN ledger.expenses}

\* two merges in a row; the second is not reached when the first throws
MergeTwice(L, R1, R2) ==
  LET first == calculateDailySpendRate(R1, L)
  IN IF first.ok
     THEN calculateDailySpendRate(R2, first.historicalData)
     ELSE first

\* the unordered pairs of distinct feed batches
BatchPairs == {pair \in SUBSET Batches : Cardinality(pair) = 2}

C12_FirstSeenWins ==
  \A R \in Batches :
    (R # <<>> /\ IdsOf(R) \subseteq StoredIds) =>
      LET again == calculateDailySpendRate(R, StoredLedger)
      IN /\ again.ok
         /\ again.historicalData = StoredLedger

\* the stored total of a date, 0 when the date has none
TotalOn(ledger, d) ==
  IF d \in DOMAIN ledger.dailyRates THEN ledger.dailyRates[d] ELSE 0

\* the outcome expected of the ledger stored by a cash entry exp applied to L:
\* one more record, the total of exp's date raised by its amount, the other
\* totals as they were
CashOutcome(L, exp, stored) ==
  /\ Len(stored.expenses) = Len(L.expenses) + 1
  /\ DOMAIN stored.dailyRates = (DOMAIN L.dailyRates) \cup {exp.expense_date}
  /\ stored.dailyRates[exp.expense_date] = TotalOn(L, exp.expense_date) + exp.amount
  /\ \A k \in (DOMAIN L.dailyRates) \ {exp.expense_date} :
       stored.dailyRates[k] = L.dailyRates[k]

\* C13: the ledger stored by a cash entry is the one the merge returns for the
\* entry as the only incoming record, and it has exactly one more record,
\* the total of the entry's date raised by its amount, and every other total
\* unchanged.
C13_CashThroughMerge ==
  inv["i1"].pc = "cashed" =>
    LET L      == inv["i1"].hist
        exp    == inv["i1"].expenses[1]
        merged == calculateDailySpendRate(<<exp>>, L)
    IN /\ merged.ok
       /\ StoredLedger = merged.historicalData
       /\ CashOutcome(L, exp, StoredLedger)

CyclePcs == {"load", "window", "fetch", "merge"}

\* the ledger processDailySpendRate is about to save
Merged(p) == calculateDailySpendRate(inv[p].expenses, inv[p].hist).historicalData

\* C14: the step on which a cycle throws leaves the stored ledger as it is,
\* which is the ledger the cycle read (no other invocation running); /trigger
\* and /calculate then answer with status 500; and a cycle returns a result
\* only from the step that saves the merged ledger.
C14_FailedCycleKeepsLedger ==
  [][\A p \in Invocations :
       /\ (inv[p].pc \in CyclePcs /\ inv'[p].pc = "failed") =>
            /\ kvLedger' = kvLedger
            /\ inv[p].pc # "load" => StoredLedger' = inv[p].hist
            /\ inv[p].route \in {"trigger", "calculate"} =>
                 HttpStatus(inv[p].route, TRUE) = 500
       /\ (inv[p].pc \in CyclePcs /\ inv'[p].pc \in {"done", "notify"}) =>
            /\ inv[p].pc = "merge"
            /\ kvLedger' = <<Merged(p)>>]_vars

\* a cycle has failed after its fetch, with a ledger stored
C14_Witness ==
  /\ PersistFailedLast
  /\ kvLedger # <<>>
  /\ \E p \in Invocations : inv[p].pc = "failed"

\* C15: the notification is attempted with the merged ledger already stored,
\* and whether it is sent or throws the cycle returns, leaving stored the
\* ledger it saved and the cursor it wrote.
C15_NotificationFailureIsCaught ==
  [][\A p \in Invocations :
       /\ (inv[p].pc = "merge" /\ inv'[p].pc = "notify") =>
            kvLedger' = <<Merged(p)>>
       /\ (inv[p].pc = "notify" /\ inv'[p] # inv[p]) =>
            /\ inv'[p].pc = "done"
            /\ kvLedger' = <<inv[p].hist>>
            /\ kvCursor' = <<inv[p].today>>]_vars

\* a cycle has returned after its notification threw
C15_Witness ==
  \E p \in Invocations :
    /\ inv[p].pc = "done"
    /\ inv[p].notice = "lost"
    /\ StoredLedger.expenses # <<>>
    /\ kvCursor # <<>>

StatusQueries == {"stats", "calculate"}

\* C16 as claimed: a /stats, /update or /calculate invocation changes neither
\* the stored ledger nor the stored cursor and sends no request to the feed.
C16_StatusQueryReadOnly ==
  [][\A p \in Invocations :
       inv'[p].route \in StatusQueries =>
         /\ inv'[p] # inv[p] => UNCHANGED <<kvLedger, kvCursor>>
         /\ inv'[p].pc # "fetch"]_vars

\* C16 as amended: a /stats, /update or /calculate invocation answers only
\* from the step that saves the merged ledger, after its fetch has stored the
\* cursor: every answered status query is a full sync cycle.
C16_StatusQuerySyncs ==
  [][\A p \in Invocations :
       (inv[p].route \in StatusQueries /\ inv'[p].pc = "done") =>
         /\ inv[p].pc = "merge"
         /\ kvCursor = <<inv[p].today>>
         /\ kvLedger' = <<Merged(p)>>]_vars

\* a status query has fetched records and moved the cursor
C16_Witness ==
  \E p \in Invocations :
    /\ inv[p].route \in StatusQueries
    /\ inv[p].pc = "merge"
    /\ inv[p].expenses # <<>>
    /\ kvCursor = <<inv[p].today>>
    /\ inv[p].cursorRead # kvCursor

\* the analytics of the stored ledger, an empty batch being merged into it
StoredOk == calculateDailySpendRate(<<>>, StoredLedger).ok

StoredResult == spendRateResult(<<>>, StoredLedger)

StoredValid == validExpenses(StoredLedger.expenses)

ThreeDays ==
  /\ inv["i1"].pc = "merged"
  /\ inv["i1"].hist = EmptyLedger
  /\ inv["i1"].expenses = <<s1, s2, s3>>

\* C18 as claimed: for that ledger the result has totalAmount 150,
\* periodDays 3 and dailyRate 50, and the shortfall to a target of 50 is 0.
C18_ThreeDaysAsClaimed ==
  ThreeDays =>
    LET r == spendRateResult(inv["i1"].expenses, inv["i1"].hist)
    IN /\ r.totalAmount = 150
       /\ r.periodDays = 3
       /\ r.dailyRate = Divide(50, 1)
       /\ calculateTargetSpend(50, r.periodDays, r.totalAmount) = 0

\* C18 as amended: for that ledger the result has totalAmount 150,
\* periodDays 2 and dailyRate 75; the shortfall to a target of 50 is 0, and
\* the returned targetSpendAmount, computed for the default target, is 150.
C18_ThreeDays ==
  ThreeDays =>
    LET r == spendRateResult(inv["i1"].expenses, inv["i1"].hist)
    IN /\ r.totalAmount = 150
       /\ r.periodDays = 2
       /\ r.dailyRate = Divide(75, 1)
       /\ calculateTargetSpend(50, r.periodDays, r.totalAmount) = 0
       /\ r.targetSpendAmount = 150

\* the three records have been merged into the empty ledger and stored
C18_Witness ==
  /\ ThreeDays
  /\ StoredLedger.expenses = <<s1, s2, s3>>

\* C19: for the empty ledger the result has totalAmount 0, dailyRate 0,
\* periodDays 1, targetSpendAmount 150, both moving averages 0, no category
\* and the currency AUD.
C19_EmptyLedger ==
  StoredLedger = EmptyLedger =>
    /\ StoredOk
    /\ StoredResult.totalAmount = 0
    /\ StoredResult.dailyRate = Divide(0, 1)
    /\ StoredResult.periodDays = 1
    /\ StoredResult.targetSpendAmount = 150
    /\ StoredResult.movingAverage7Day = Divide(0, 1)
    /\ StoredResult.movingAverage30Day = Divide(0, 1)
    /\ StoredResult.topCategories = <<>>
    /\ StoredResult.currency = "AUD"

\* an empty batch has been merged into the empty ledger
C19_Witness ==
  /\ inv["i1"].pc = "merged"
  /\ inv["i1"].hist = EmptyLedger
  /\ inv["i1"].expenses = <<>>
  /\ kvLedger = <<EmptyLedger>>

\* target rates the shortfall is checked for
TargetRates == {50, DefaultTarget}

\* C20: the shortfall to a target is never negative, is 0 when totalAmount
\* reaches target x periodDays and is target x periodDays - totalAmount
\* otherwise; the returned targetSpendAmount is the shortfall to 150.
C20_TargetDeviation ==
  StoredOk =>
    LET r == StoredResult
    IN /\ \A t \in TargetRates :
            LET dev == calculateTargetSpend(t, r.periodDays, r.totalAmount)
            IN /\ dev >= 0
               /\ dev = 0 <=> r.totalAmount >= t * r.periodDays
               /\ dev > 0 => dev = t * r.periodDays - r.totalAmount
       /\ r.targetSpendAmount =
            calculateTargetSpend(DefaultTarget, r.periodDays, r.totalAmount)

\* a stored ledger that spends more than the default target over its period
C20_Witness ==
  /\ StoredOk
  /\ StoredResult.totalAmount > DefaultTarget * StoredResult.periodDays
  /\ StoredResult.targetSpendAmount = 0

\* window lengths the moving average is checked for
WindowSizes == {1, 2, 7, 30}

\* the dates of dailyRates that have fewer than n dates after them
MostRecent(dailyRates, n) ==
  {d \in DOMAIN dailyRates :
     Cardinality({e \in DOMAIN dailyRates : DateBefore(d, e)}) < n}

\* avg is the mean of the totals of the n most recent dates of dailyRates
IsMeanOfRecent(dailyRates, n, avg) ==
  LET used == MostRecent(dailyRates, n)
  IN /\ DOMAIN dailyRates = {} => avg = Divide(0, 1)
     /\ DOMAIN dailyRates # {} =>
          /\ Cardinality(used) = Min(n, Cardinality(DOMAIN dailyRates))
          /\ avg.den > 0
          /\ avg.num * Cardinality(used) =
               SumRates([d \in used |-> dailyRates[d]]) * avg.den

\* the dailyRates that a computation over the stored ledger returns
ReturnedRates ==
  calculateDailySpendRate(<<>>, StoredLedger).historicalData.dailyRates

\* C21: the moving average over N days of a dailyRates is 0 when it has no
\* date, and otherwise the sum of the totals of its N most recent dates (all
\* of them when there are fewer than N) divided by the number of those dates,
\* a day without a date counting for nothing; the two averages of a result
\* are those of the dailyRates it returns, for 7 and for 30.
C21_MovingAverage ==
  /\ \A n \in WindowSizes :
       IsMeanOfRecent(StoredLedger.dailyRates, n,
                      calculateMovingAverage(StoredLedger.dailyRates, n))
  /\ StoredOk =>
       /\ IsMeanOfRecent(ReturnedRates, 7, StoredResult.movingAverage7Day)
       /\ IsMeanOfRecent(ReturnedRates, 30, StoredResult.movingAverage30Day)

\* a stored ledger with more than two dates, not on consecutive days, whose
\* average over the two most recent differs from the average over all
C21_Witness ==
  /\ Cardinality(DOMAIN StoredLedger.dailyRates) > 2
  /\ <<2, 26>> \in DOMAIN StoredLedger.dailyRates
  /\ <<2, 28>> \notin DOMAIN StoredLedger.dailyRates
  /\ <<2, 30>> \in DOMAIN StoredLedger.dailyRates
  /\ calculateMovingAverage(StoredLedger.dailyRates, 2)
       # calculateMovingAverage(StoredLedger.dailyRates, 7)

\* the label of a record: the merchant's category, else the category field,
\* else the merchant given as a string, else "Uncategorized"
ResolvedLabel(exp) ==
  CASE exp.merchantCategory # "" -> exp.merchantCategory
    [] exp.merchantCategory = "" /\ exp.category # "" -> exp.category
    [] exp.merchantCategory = "" /\ exp.category = "" /\ exp.merchant # ""
         -> exp.merchant
    [] OTHER -> "Uncategorized"

StoredLabels == {ResolvedLabel(StoredValid[i]) : i \in DOMAIN StoredValid}

\* the sum of |amount| of the valid stored records labelled c
RECURSIVE LabelSumFrom(_, _)
LabelSumFrom(c, i) ==
  IF i > Len(StoredValid) THEN 0
  ELSE (IF ResolvedLabel(StoredValid[i]) = c
        THEN Abs(StoredValid[i].amount) ELSE 0) + LabelSumFrom(c, i + 1)

LabelSum(c) == LabelSumFrom(c, 1)

\* C22: topCategories of a computation over the stored ledger has the five
\* labels of largest sum (all labels when there are at most five), each once,
\* in non-increasing order of amount; an entry's amount is the sum of |amount|
\* of the valid records that resolve to its label, no label left out has a
\* larger sum than an entry, and an entry's percentage is its share of
\* totalAmount rounded to one decimal, 0.0 when totalAmount is 0.
C22_TopCategories ==
  StoredOk =>
    LET top   == StoredResult.topCategories
        total == StoredResult.totalAmount
        shown == {top[i].category : i \in DOMAIN top}
    IN /\ Len(top) <= 5
       /\ Len(top) = Min(5, Cardinality(StoredLabels))
       /\ Cardinality(shown) = Len(top)
       /\ shown \subseteq StoredLabels
       /\ \A i \in DOMAIN top :
            /\ top[i].amount = LabelSum(top[i].category)
            /\ i > 1 => top[i - 1].amount >= top[i].amount
            /\ \A c \in StoredLabels \ shown : LabelSum(c) <= top[i].amount
            /\ total = 0 => top[i].percentage = 0
            /\ total > 0 =>
                 /\ 2 * (top[i].percentage * total - 1000 * top[i].amount)
                      <= total
                 /\ 2 * (1000 * top[i].amount - top[i].percentage * total)
                      <= total

\* a stored ledger of seven labels, resolved from each of the three fields
\* and from none, where a label left out has the sum of the fifth entry
C22_Witness ==
  /\ StoredOk
  /\ StoredLabels =
       {"Travel", "Food", "Cafe", "Uncategorized", "Books", "Music", "Rent"}
  /\ Len(StoredResult.topCategories) = 5
  /\ StoredResult.topCategories[5].amount = 2
  /\ \E c \in StoredLabels :
       /\ \A i \in 1..5 : StoredResult.topCategories[i].category # c
       /\ LabelSum(c) = 2

\* the records of a batch whose amount is a finite number
Finite(batch) == SelectSeq(batch, LAMBDA exp : exp.numeric /\ ~exp.nan)

\* C23: a merge gives the totalAmount, the dailyRates, the period and the
\* category sums that it gives for the incoming records of finite amount
\* alone, and its records hold every incoming record of a new id, those
\* without a finite amount included.
C23_InvalidContributeNothing ==
  inv["i1"].pc = "merged" =>
    LET L       == inv["i1"].hist
        batch   == inv["i1"].expenses
        full    == spendRateResult(batch, L)
        finite  == spendRateResult(Finite(batch), L)
        records == calculateDailySpendRate(batch, L).historicalData.expenses
    IN /\ full.totalAmount = finite.totalAmount
       /\ calculateDailySpendRate(batch, L).historicalData.dailyRates =
            calculateDailySpendRate(Finite(batch), L).historicalData.dailyRates
       /\ full.periodDays = finite.periodDays
       /\ full.topCategories = finite.topCategories
       /\ \A i \in DOMAIN batch :
            \E j \in DOMAIN records : records[j].id = batch[i].id

\* the magnitude of an amount
Magnitude(amount) == IF amount < 0 THEN 0 - amount ELSE amount

\* the sum of the magnitudes of the records of exps that are counted
RECURSIVE MagnitudeSum(_)
MagnitudeSum(exps) ==
  IF exps = <<>> THEN 0
  ELSE (IF Head(exps).numeric THEN Magnitude(Head(exps).amount) ELSE 0)
       + MagnitudeSum(Tail(exps))

\* the incoming records that the merge adds: the first of each id not stored
Added(L, batch) ==
  LET firsts == SelectSeq([i \in DOMAIN batch |-> <<i, batch[i]>>],
                  LAMBDA x : \A j \in 1..(x[1] - 1) : batch[j].id # x[2].id)
  IN SelectSeq([i \in DOMAIN firsts |-> firsts[i][2]],
               LAMBDA exp : exp.id \notin IdsOf(L.expenses))

\* C24: a merge raises totalAmount by the magnitudes of the counted records
\* it adds, negative amounts included; the total it gives each date of a
\* counted record and the amount it gives each label are sums of magnitudes;
\* and neither totalAmount nor the total of any date is lower after the merge
\* than before.
C24_AbsoluteAmounts ==
  inv["i1"].pc = "merged" =>
    LET L      == inv["i1"].hist
        batch  == inv["i1"].expenses
        merged == calculateDailySpendRate(batch, L).historicalData
        before == spendRateResult(<<>>, L)
        after  == spendRateResult(batch, L)
    IN /\ after.totalAmount =
            before.totalAmount
              + MagnitudeSum(Added(L, batch))
       /\ after.totalAmount >= before.totalAmount
       /\ \A k \in DOMAIN L.dailyRates :
            /\ k \in DOMAIN merged.dailyRates
            /\ merged.dailyRates[k] >= L.dailyRates[k]
       /\ \A i \in DOMAIN merged.expenses :
            merged.expenses[i].numeric =>
              merged.dailyRates[DateKey(merged.expenses[i])] =
                MagnitudeSum(SelectSeq(merged.expenses,
                  LAMBDA exp : exp.numeric
                               /\ DateKey(exp) = DateKey(merged.expenses[i])))
       /\ \A i \in DOMAIN after.topCategories :
            after.topCategories[i].amount =
              MagnitudeSum(SelectSeq(merged.expenses,
                LAMBDA exp : ResolvedLabel(exp) = after.topCategories[i].category))

\* a merge that adds a refund of 3 on a date whose stored total is 400: the
\* date's total becomes 403
C24_Witness ==
  /\ inv["i1"].pc = "merged"
  /\ \E i \in DOMAIN inv["i1"].expenses :
       /\ inv["i1"].expenses[i].amount < 0
       /\ inv["i1"].expenses[i].id \notin IdsOf(inv["i1"].hist.expenses)
  /\ <<2, 27>> \in DOMAIN inv["i1"].hist.dailyRates
  /\ inv["i1"].hist.dailyRates[<<2, 27>>] = 400
  /\ StoredLedger.dailyRates[<<2, 27>>] = 403

\* C25: for every stored ledger, a merge of no incoming record does not
\* throw and returns the records and the dailyRates of the ledger.
C25_EmptyMergeIsNoOp ==
  LET spendRate == calculateDailySpendRate(<<>>, StoredLedger)
  IN /\ spendRate.ok
     /\ spendRate.historicalData.expenses = StoredLedger.expenses
     /\ spendRate.historicalData.dailyRates = StoredLedger.dailyRates

\* C26: a step of an invocation that handles /test leaves the stored ledger
\* and the stored cursor as they are and does not put the invocation at any
\* position of the sync cycle, so that it fetches nothing.
C26_TestLeavesData ==
  [][\A p \in Invocations :
       (inv'[p].route = "test" /\ inv'[p] # inv[p]) =>
         /\ kvLedger' = kvLedger
         /\ kvCursor' = kvCursor
         /\ inv'[p].pc \notin CyclePcs \cup {"notify"}]_vars

\* /test has been answered with the chart while a ledger with records and a
\* cursor are stored
C26_Witness ==
  /\ inv["i1"].route = "test"
  /\ inv["i1"].pc = "done"
  /\ inv["i1"].notice = "chart"
  /\ StoredLedger.expenses # <<>>
  /\ kvCursor # <<>>

\* C27: a step on which the /add_cash_expense handler answers with the error
\* reply (the amount is refused, the ledger read or write fails, or the
\* request of another reply throws) leaves the stored ledger as it was, and
\* the command has stored nothing before it.
C27_ErrorReplyMeansNotAdded ==
  [][\A p \in Invocations :
       (\/ /\ inv'[p].parts # <<>>
            /\ inv'[p].notice = "error"
            /\ inv'[p] # inv[p]
        \/ /\ inv[p].pc \in {"cashRead", "cashSave"}
            /\ inv'[p].pc = "failed")
         => kvLedger' = kvLedger]_vars

\* the amount texts that are decimal numbers, and the number each one is
NumberTexts == {"4", "0", "-5"}

NumberOf(text) ==
  CASE text = "4" -> 4
    [] text = "0" -> 0
    [] text = "-5" -> 0 - 5

\* a command that the handler is to refuse: fewer than two parameters, or an
\* amount that is not a number, or is zero or negative
ToBeRejected(parts) ==
  /\ parts # <<>>
  /\ \/ Len(parts) < 2
     \/ parts[1] \notin NumberTexts
     \/ NumberOf(parts[1]) <= 0

\* C28: a step of the handler of a command with fewer than two parameters,
\* or with an amount that is not a number or not above zero, leaves the
\* stored ledger as it is and does not go on to addCashExpense; the handler
\* ends with the usage instructions or the error reply, or with no reply when
\* the request of the reply fails, and never with a confirmation.
C28_InvalidCommandRejected ==
  [][\A p \in Invocations :
       (ToBeRejected(inv'[p].parts) /\ inv'[p] # inv[p]) =>
         /\ kvLedger' = kvLedger
         /\ inv'[p].pc = "done"
         /\ inv'[p].notice \in {"usage", "error", "none"}]_vars

\* C29: the merge of any feed batch into the stored ledger does not throw,
\* and neither does the merge of a cycle that has read the ledger and fetched
\* its batch; such a cycle can go on to store its result.
C29_NoEntryWedgesSync ==
  /\ \A batch \in Batches : calculateDailySpendRate(batch, StoredLedger).ok
  /\ \A p \in Invocations :
       inv[p].pc = "merge" =>
         calculateDailySpendRate(inv[p].expenses, inv[p].hist).ok

\* C30: a cycle presents to the bank only the token of the bank's last
\* refresh, and while no refresh is between its two writes the stored token
\* and the stored expiry are from the same refresh.
C30_NoInvalidatedToken ==
  [][/\ \A p \in Invocations :
          (inv[p].pc = "present" /\ inv'[p].pc # "present") =>
            inv[p].token = <<issued>>
     /\ (/\ kvToken' # <<>>
         /\ kvExpiry' # <<>>
         /\ \A p \in Invocations : inv'[p].pc \notin {"putToken", "putExpiry"})
          => kvExpiry'[1].of = kvToken'[1]]_vars

====
